---- MODULE Spec2Model ----
(***************************************************************************)
(* Provider registry of the voice dictation server.                        *)
(*                                                                         *)
(*   server/config/settings.py     Settings: one optional API key per      *)
(*                                 provider                                *)
(*   server/services/providers.py  provider enums and labels, the service  *)
(*                                 factory (create_stt_service and         *)
(*                                 create_llm_service), the                *)
(*                                 availability lists and the registry     *)
(*                                 builder (create_all_available_..._services)*)
(*   server/api/config_server.py   the process-wide registry, its setter   *)
(*                                 and the available-providers endpoint    *)
(*                                                                         *)
(* A Python dict is modelled as the sequence of its items in insertion     *)
(* order, each item a record [k, v].  A call that may raise is modelled    *)
(* by its outcome: [ok |-> TRUE, value |-> ...] on return and              *)
(* [ok |-> FALSE, exc |-> ..., msg |-> ...] on an exception.               *)
(***************************************************************************)
EXTENDS Integers, Sequences, FiniteSets, TLC

(***************************************************************************)
(* Bounds of the model.                                                    *)
(***************************************************************************)
\* at most this many of the eight API keys are set (to "" or to a key)
MaxConfigured == 2
\* each registry builder is run at most this many times
MaxBuilds == 2
\* the available-providers endpoint is called at most this many times
MaxRequests == 2

(***************************************************************************)
(* Values of an optional API key: None, the empty string, a key.           *)
(***************************************************************************)
None == "<None>"
EmptyKey == ""
SomeKey == "sk-key"
CredValues == {None, EmptyKey, SomeKey}

\* Python truthiness of an optional string, as tested by `if settings.x_api_key`
\* and `if not settings.x_api_key`; the faulty variant tests `is not None` instead
Truthy_IsNotNone(v) == v # None
Truthy(v) == v # None /\ v # EmptyKey

(***************************************************************************)
(* Provider enums and display labels (providers.py).                       *)
(***************************************************************************)
ASSEMBLYAI == "assemblyai"
CARTESIA == "cartesia"
DEEPGRAM == "deepgram"
OPENAI == "openai"
GEMINI == "gemini"
ANTHROPIC == "anthropic"
CEREBRAS == "cerebras"
GROQ == "groq"

\* the members of each enum, in definition order
STTProvider == <<ASSEMBLYAI, CARTESIA, DEEPGRAM>>
LLMProvider == <<OPENAI, GEMINI, ANTHROPIC, CEREBRAS, GROQ>>

Range(s) == {s[i] : i \in 1..Len(s)}
STTProviders == Range(STTProvider)
LLMProviders == Range(LLMProvider)
Providers == STTProviders \cup LLMProviders

STT_PROVIDER_LABELS ==
    (ASSEMBLYAI :> "AssemblyAI") @@ (CARTESIA :> "Cartesia") @@ (DEEPGRAM :> "Deepgram")

LLM_PROVIDER_LABELS ==
    (OPENAI :> "OpenAI") @@ (GEMINI :> "Google Gemini") @@ (ANTHROPIC :> "Anthropic")
    @@ (CEREBRAS :> "Cerebras") @@ (GROQ :> "Groq")

(***************************************************************************)
(* Settings (settings.py): the API-key fields.                             *)
(***************************************************************************)
CredentialFields ==
    {"assemblyai_api_key", "cartesia_api_key", "deepgram_api_key",
     "openai_api_key", "google_api_key", "anthropic_api_key",
     "cerebras_api_key", "groq_api_key"}

\* the field that holds a provider's API key
RequiredCredential(provider) ==
    CASE provider = ASSEMBLYAI -> "assemblyai_api_key"
      [] provider = CARTESIA -> "cartesia_api_key"
      [] provider = DEEPGRAM -> "deepgram_api_key"
      [] provider = OPENAI -> "openai_api_key"
      [] provider = GEMINI -> "google_api_key"
      [] provider = ANTHROPIC -> "anthropic_api_key"
      [] provider = CEREBRAS -> "cerebras_api_key"
      [] provider = GROQ -> "groq_api_key"

Settings ==
    {s \in [CredentialFields -> CredValues] :
        Cardinality({f \in CredentialFields : s[f] # None}) <= MaxConfigured}

(***************************************************************************)
(* Python dict, in insertion order.                                        *)
(***************************************************************************)
EmptyDict == <<>>
DictKeys(d) == [i \in 1..Len(d) |-> d[i].k]
DictKeySet(d) == {d[i].k : i \in 1..Len(d)}
\* d[key] = value: replaces the value of an existing key in place, appends a new key
DictSet(d, key, value) ==
    IF key \in DictKeySet(d)
    THEN [i \in 1..Len(d) |-> IF d[i].k = key THEN [k |-> key, v |-> value] ELSE d[i]]
    ELSE Append(d, [k |-> key, v |-> value])
\* labels.get(key, default)
DictGet(labels, key, default) == IF key \in DOMAIN labels THEN labels[key] ELSE default

(***************************************************************************)
(* State.                                                                  *)
(***************************************************************************)
VARIABLES
    settings,                  \* the Settings object, loaded once
    ctor_raises,               \* providers whose service class fails to import or construct
    stt_services,              \* the caller's result of create_all_available_stt_services
    llm_services,              \* the caller's result of create_all_available_llm_services
    stt_history,               \* key set of each STT registry built so far
    llm_history,               \* key set of each LLM registry built so far
    uncaught,                  \* exception that escaped a registry builder, or None
    log,                       \* warnings written by the registry builders
    _available_stt_services,   \* config_server's process-wide STT registry
    _available_llm_services,   \* config_server's process-wide LLM registry
    initialized,               \* set_available_providers has been called
    n_requests,                \* available-providers calls served
    response,                  \* body of the last available-providers response
    served_from,               \* the registries the last response was rendered from
    last_call                  \* outcome of the last direct factory call (0 or 1 element)

vars == <<settings, ctor_raises, stt_services, llm_services, stt_history, llm_history,
          uncaught, log, _available_stt_services, _available_llm_services, initialized,
          n_requests, response, served_from, last_call>>

builder_vars == <<stt_services, llm_services, stt_history, llm_history, uncaught, log>>
publisher_vars == <<_available_stt_services, _available_llm_services, initialized,
                    n_requests, response, served_from>>

(***************************************************************************)
(* Service factory (providers.py).                                         *)
(***************************************************************************)
\* raise exc(msg), before any service class is touched
Raise(exc, msg) == [ok |-> FALSE, exc |-> exc, msg |-> msg, ctor |-> FALSE]

\* `from pipecat.services... import cls` followed by `cls(**kwargs)`: the vendor
\* class either fails (for the providers in ctor_raises) or yields an instance
Construct(provider, cls, kwargs) ==
    IF provider \in ctor_raises
    THEN [ok |-> FALSE, exc |-> "Exception", msg |-> cls, ctor |-> TRUE]
    ELSE [ok |-> TRUE, value |-> [cls |-> cls, kwargs |-> kwargs], ctor |-> TRUE]

\* faulty variant: the Deepgram branch tests `is None` instead of `not ...`
create_stt_service_DeepgramIsNone(provider, s) ==
    IF provider = ASSEMBLYAI THEN
        IF ~Truthy(s.assemblyai_api_key)
        THEN Raise("ValueError", "AssemblyAI API key not configured")
        ELSE Construct(provider, "AssemblyAISTTService", [api_key |-> s.assemblyai_api_key])
    ELSE IF provider = CARTESIA THEN
        IF ~Truthy(s.cartesia_api_key)
        THEN Raise("ValueError", "Cartesia API key not configured")
        ELSE Construct(provider, "CartesiaSTTService", [api_key |-> s.cartesia_api_key])
    ELSE IF provider = DEEPGRAM THEN
        IF s.deepgram_api_key = None
        THEN Raise("ValueError", "Deepgram API key not configured")
        ELSE Construct(provider, "DeepgramSTTService", [api_key |-> s.deepgram_api_key])
    ELSE Raise("ValueError", "Unknown STT provider")

create_stt_service(provider, s) ==
    IF provider = ASSEMBLYAI THEN
        IF ~Truthy(s.assemblyai_api_key)
        THEN Raise("ValueError", "AssemblyAI API key not configured")
        ELSE Construct(provider, "AssemblyAISTTService", [api_key |-> s.assemblyai_api_key])
    ELSE IF provider = CARTESIA THEN
        IF ~Truthy(s.cartesia_api_key)
        THEN Raise("ValueError", "Cartesia API key not configured")
        ELSE Construct(provider, "CartesiaSTTService", [api_key |-> s.cartesia_api_key])
    ELSE IF provider = DEEPGRAM THEN
        IF ~Truthy(s.deepgram_api_key)
        THEN Raise("ValueError", "Deepgram API key not configured")
        ELSE Construct(provider, "DeepgramSTTService", [api_key |-> s.deepgram_api_key])
    ELSE Raise("ValueError", "Unknown STT provider")

create_llm_service(provider, s) ==
    IF provider = OPENAI THEN
        IF ~Truthy(s.openai_api_key)
        THEN Raise("ValueError", "OpenAI API key not configured")
        ELSE Construct(provider, "OpenAILLMService", [api_key |-> s.openai_api_key])
    ELSE IF provider = GEMINI THEN
        IF ~Truthy(s.google_api_key)
        THEN Raise("ValueError", "Google API key not configured")
        ELSE Construct(provider, "GoogleLLMService", [api_key |-> s.google_api_key])
    ELSE IF provider = ANTHROPIC THEN
        IF ~Truthy(s.anthropic_api_key)
        THEN Raise("ValueError", "Anthropic API key not configured")
        ELSE Construct(provider, "AnthropicLLMService", [api_key |-> s.anthropic_api_key])
    ELSE IF provider = CEREBRAS THEN
        IF ~Truthy(s.cerebras_api_key)
        THEN Raise("ValueError", "Cerebras API key not configured")
        ELSE Construct(provider, "CerebrasLLMService",
                       [api_key |-> s.cerebras_api_key, retry_on_timeout |-> TRUE,
                        retry_timeout_secs |-> 10])
    ELSE IF provider = GROQ THEN
        IF ~Truthy(s.groq_api_key)
        THEN Raise("ValueError", "Groq API key not configured")
        ELSE Construct(provider, "GroqLLMService", [api_key |-> s.groq_api_key])
    ELSE Raise("ValueError", "Unknown LLM provider")

(***************************************************************************)
(* Availability lists (providers.py).                                      *)
(***************************************************************************)
AppendIf(cond, list, provider) == IF cond THEN Append(list, provider) ELSE list

get_available_stt_providers(s) ==
    LET a1 == AppendIf(Truthy(s.assemblyai_api_key), <<>>, ASSEMBLYAI)
        a2 == AppendIf(Truthy(s.cartesia_api_key), a1, CARTESIA)
        a3 == AppendIf(Truthy(s.deepgram_api_key), a2, DEEPGRAM)
    IN  a3

\* faulty variant: the Cerebras check is moved to the front of the function
get_available_llm_providers_CerebrasFirst(s) ==
    LET a0 == AppendIf(Truthy(s.cerebras_api_key), <<>>, CEREBRAS)
        a1 == AppendIf(Truthy(s.openai_api_key), a0, OPENAI)
        a2 == AppendIf(Truthy(s.google_api_key), a1, GEMINI)
        a3 == AppendIf(Truthy(s.anthropic_api_key), a2, ANTHROPIC)
        a5 == AppendIf(Truthy(s.groq_api_key), a3, GROQ)
    IN  a5

get_available_llm_providers(s) ==
    LET a1 == AppendIf(Truthy(s.openai_api_key), <<>>, OPENAI)
        a2 == AppendIf(Truthy(s.google_api_key), a1, GEMINI)
        a3 == AppendIf(Truthy(s.anthropic_api_key), a2, ANTHROPIC)
        a4 == AppendIf(Truthy(s.cerebras_api_key), a3, CEREBRAS)
        a5 == AppendIf(Truthy(s.groq_api_key), a4, GROQ)
    IN  a5

(***************************************************************************)
(* Registry builder (providers.py).                                        *)
(***************************************************************************)
\* `except Exception as e`: catches whatever the factory raises; the faulty variant
\* catches the factory's own ValueError only
Catches_ValueErrorOnly(exc) == exc = "ValueError"
Catches(exc) == exc \in {"ValueError", "Exception"}

Warning(event, provider, r) == [event |-> event, provider |-> provider, error |-> r.msg]
Escaped(acc, r) == [ok |-> FALSE, exc |-> r.exc, msg |-> r.msg, log |-> acc.log]

\* faulty variant: a failed construction ends the loop (break) instead of continuing
RECURSIVE stt_loop_BreakOnFailure(_, _, _)
stt_loop_BreakOnFailure(available, acc, s) ==
    IF available = <<>> THEN acc
    ELSE LET provider == Head(available)
             r == create_stt_service(provider, s)
         IN  IF r.ok
             THEN stt_loop_BreakOnFailure(Tail(available),
                       [acc EXCEPT !.value = DictSet(@, provider, r.value)], s)
             ELSE IF Catches(r.exc)
             THEN [acc EXCEPT !.log = @ \cup
                       {Warning("failed_to_create_stt_service", provider, r)}]
             ELSE Escaped(acc, r)

\* the body of `for provider in get_available_stt_providers(settings)`
RECURSIVE stt_loop(_, _, _)
stt_loop(available, acc, s) ==
    IF available = <<>> THEN acc
    ELSE LET provider == Head(available)
             r == create_stt_service(provider, s)
         IN  IF r.ok
             THEN stt_loop(Tail(available),
                       [acc EXCEPT !.value = DictSet(@, provider, r.value)], s)
             ELSE IF Catches(r.exc)
             THEN stt_loop(Tail(available),
                       [acc EXCEPT !.log = @ \cup
                           {Warning("failed_to_create_stt_service", provider, r)}], s)
             ELSE Escaped(acc, r)

RECURSIVE llm_loop(_, _, _)
llm_loop(available, acc, s) ==
    IF available = <<>> THEN acc
    ELSE LET provider == Head(available)
             r == create_llm_service(provider, s)
         IN  IF r.ok
             THEN llm_loop(Tail(available),
                       [acc EXCEPT !.value = DictSet(@, provider, r.value)], s)
             ELSE IF Catches(r.exc)
             THEN llm_loop(Tail(available),
                       [acc EXCEPT !.log = @ \cup
                           {Warning("failed_to_create_llm_service", provider, r)}], s)
             ELSE Escaped(acc, r)

\* services = {} and no warning yet
EmptyRegistry == [ok |-> TRUE, value |-> EmptyDict, log |-> {}]

create_all_available_stt_services(s) ==
    stt_loop(get_available_stt_providers(s), EmptyRegistry, s)

\* faulty variant: providers already present in the caller's registry are not built again
create_all_available_llm_services_SkipBuilt(s) ==
    llm_loop(SelectSeq(get_available_llm_providers(s),
                       LAMBDA p : p \notin DictKeySet(llm_services)),
             EmptyRegistry, s)

create_all_available_llm_services(s) ==
    llm_loop(get_available_llm_providers(s), EmptyRegistry, s)

\* stt_services = create_all_available_stt_services(settings)
CreateAllAvailableSttServices ==
    /\ Len(stt_history) < MaxBuilds
    /\ LET r == create_all_available_stt_services(settings)
       IN  /\ log' = log \cup r.log
           /\ IF r.ok
              THEN /\ stt_services' = r.value
                   /\ stt_history' = Append(stt_history, DictKeySet(r.value))
                   /\ UNCHANGED uncaught
              ELSE /\ uncaught' = r.exc
                   /\ UNCHANGED <<stt_services, stt_history>>
    /\ UNCHANGED <<settings, ctor_raises, llm_services, llm_history, last_call>>
    /\ UNCHANGED publisher_vars

\* llm_services = create_all_available_llm_services(settings)
CreateAllAvailableLlmServices ==
    /\ Len(llm_history) < MaxBuilds
    /\ LET r == create_all_available_llm_services(settings)
       IN  /\ log' = log \cup r.log
           /\ IF r.ok
              THEN /\ llm_services' = r.value
                   /\ llm_history' = Append(llm_history, DictKeySet(r.value))
                   /\ UNCHANGED uncaught
              ELSE /\ uncaught' = r.exc
                   /\ UNCHANGED <<llm_services, llm_history>>
    /\ UNCHANGED <<settings, ctor_raises, stt_services, stt_history, last_call>>
    /\ UNCHANGED publisher_vars

(***************************************************************************)
(* Direct calls of the service factory.                                    *)
(***************************************************************************)
CreateSttService(provider) ==
    /\ last_call' = <<[provider |-> provider,
                       result |-> create_stt_service(provider, settings)]>>
    /\ UNCHANGED <<settings, ctor_raises>>
    /\ UNCHANGED builder_vars
    /\ UNCHANGED publisher_vars

CreateLlmService(provider) ==
    /\ last_call' = <<[provider |-> provider,
                       result |-> create_llm_service(provider, settings)]>>
    /\ UNCHANGED <<settings, ctor_raises>>
    /\ UNCHANGED builder_vars
    /\ UNCHANGED publisher_vars

(***************************************************************************)
(* Registry publisher (config_server.py).                                  *)
(***************************************************************************)
\* the local providers of services.provider_registry, which the endpoint
\* compares against; neither is a member of the enums above
WHISPER == "whisper"
OLLAMA == "ollama"

get_stt_provider_labels == STT_PROVIDER_LABELS
get_llm_provider_labels == LLM_PROVIDER_LABELS

\* module-level initial values of the two registries; the faulty variant starts the STT
\* registry with an entry for the default provider
InitialSttServices_DefaultProvider ==
    <<[k |-> CARTESIA, v |-> [cls |-> "CartesiaSTTService", kwargs |-> [api_key |-> None]]]>>
InitialSttServices == EmptyDict
InitialLlmServices == EmptyDict

ProviderInfo(value, label, is_local, model) ==
    [value |-> value, label |-> label, is_local |-> is_local, model |-> model]

\* service.model_name if hasattr(service, "model_name") and service.model_name else None
ModelName(service) ==
    IF "model_name" \in DOMAIN service /\ Truthy(service.model_name)
    THEN service.model_name
    ELSE None

stt_provider_info(item) ==
    ProviderInfo(item.k, DictGet(get_stt_provider_labels, item.k, item.k),
                 item.k = WHISPER, ModelName(item.v))

\* faulty variant: is_local compares against the hosted default provider
llm_provider_info_LocalCerebras(item) ==
    ProviderInfo(item.k, DictGet(get_llm_provider_labels, item.k, item.k),
                 item.k = CEREBRAS, ModelName(item.v))

llm_provider_info(item) ==
    ProviderInfo(item.k, DictGet(get_llm_provider_labels, item.k, item.k),
                 item.k = OLLAMA, ModelName(item.v))

\* AvailableProvidersResponse(stt=[... for ... in .items()], llm=[...])
AvailableProvidersResponse(stt_dict, llm_dict) ==
    [stt |-> [i \in 1..Len(stt_dict) |-> stt_provider_info(stt_dict[i])],
     llm |-> [i \in 1..Len(llm_dict) |-> llm_provider_info(llm_dict[i])]]

Registry == <<_available_stt_services, _available_llm_services>>

SetAvailableProviders(stt_arg, llm_arg) ==
    /\ _available_stt_services' = stt_arg
    /\ _available_llm_services' = llm_arg
    /\ initialized' = TRUE
    /\ UNCHANGED <<settings, ctor_raises, n_requests, response, served_from, last_call>>
    /\ UNCHANGED builder_vars

\* faulty variant: the handler drains the registries it has rendered
GetAvailableProviders_Drain ==
    /\ n_requests < MaxRequests
    /\ response' = AvailableProvidersResponse(_available_stt_services,
                                              _available_llm_services)
    /\ served_from' = [stt |-> _available_stt_services, llm |-> _available_llm_services,
                       initialized |-> initialized]
    /\ n_requests' = n_requests + 1
    /\ _available_stt_services' = EmptyDict
    /\ _available_llm_services' = EmptyDict
    /\ UNCHANGED <<settings, ctor_raises, initialized, last_call>>
    /\ UNCHANGED builder_vars

\* GET /api/providers/available
GetAvailableProviders ==
    /\ n_requests < MaxRequests
    /\ response' = AvailableProvidersResponse(_available_stt_services,
                                              _available_llm_services)
    /\ served_from' = [stt |-> _available_stt_services, llm |-> _available_llm_services,
                       initialized |-> initialized]
    /\ n_requests' = n_requests + 1
    /\ UNCHANGED <<settings, ctor_raises, _available_stt_services,
                   _available_llm_services, initialized, last_call>>
    /\ UNCHANGED builder_vars

(***************************************************************************)
(* Specifications.                                                         *)
(***************************************************************************)
\* the arguments set_available_providers is called with: the registries the
\* caller has built, or two empty dicts
SetterArgs ==
    {<<EmptyDict, EmptyDict>>} \cup
    (IF Len(stt_history) > 0 /\ Len(llm_history) > 0
     THEN {<<stt_services, llm_services>>} ELSE {})

Init ==
    /\ settings \in Settings
    /\ ctor_raises \in SUBSET {p \in Providers : Truthy(settings[RequiredCredential(p)])}
    /\ stt_services = EmptyDict
    /\ llm_services = EmptyDict
    /\ stt_history = <<>>
    /\ llm_history = <<>>
    /\ uncaught = None
    /\ log = {}
    /\ _available_stt_services = InitialSttServices
    /\ _available_llm_services = InitialLlmServices
    /\ initialized = FALSE
    /\ n_requests = 0
    /\ response = [stt |-> <<>>, llm |-> <<>>]
    /\ served_from = [stt |-> EmptyDict, llm |-> EmptyDict, initialized |-> FALSE]
    /\ last_call = <<>>

\* the server process: registry builders, the setter and the endpoint
Next ==
    \/ CreateAllAvailableSttServices
    \/ CreateAllAvailableLlmServices
    \/ \E args \in SetterArgs : SetAvailableProviders(args[1], args[2])
    \/ GetAvailableProviders

Spec == Init /\ [][Next]_vars

\* the service factory called directly, for every provider of each kind
NextFactory ==
    \/ \E provider \in STTProviders : CreateSttService(provider)
    \/ \E provider \in LLMProviders : CreateLlmService(provider)

SpecFactory == Init /\ [][NextFactory]_vars

(***************************************************************************)
(* Properties.                                                             *)
(***************************************************************************)
\* the provider's API key is set and not empty
HasCredential(p) == settings[RequiredCredential(p)] \notin {None, EmptyKey}
SttBuilt == Len(stt_history) > 0
LlmBuilt == Len(llm_history) > 0
NoDuplicateKey(d) == Cardinality(DictKeySet(d)) = Len(d)
\* the catalog order of a kind, restricted to a key set
CatalogOrder(catalog, keys) == SelectSeq(catalog, LAMBDA p : p \in keys)
\* value, label and is_local of each entry of a response list
PublicFields(list) ==
    [i \in 1..Len(list) |->
        [value |-> list[i].value, label |-> list[i].label, is_local |-> list[i].is_local]]
Values(list) == [i \in 1..Len(list) |-> list[i].value]

\* C1: a built registry lacks every provider whose constructor raised and holds
\* every other provider of its kind that has a non-empty API key; no failure
\* escapes the builder
C1_FailureIsolation ==
    /\ uncaught = None
    /\ SttBuilt => \A p \in STTProviders :
          /\ p \in ctor_raises => p \notin DictKeySet(stt_services)
          /\ (HasCredential(p) /\ p \notin ctor_raises) => p \in DictKeySet(stt_services)
    /\ LlmBuilt => \A p \in LLMProviders :
          /\ p \in ctor_raises => p \notin DictKeySet(llm_services)
          /\ (HasCredential(p) /\ p \notin ctor_raises) => p \in DictKeySet(llm_services)

\* an STT constructor raised, was logged, and another STT provider was still built
C1_Witness ==
    /\ SttBuilt
    /\ \E p, q \in STTProviders :
          /\ p \in ctor_raises /\ p \notin DictKeySet(stt_services)
          /\ \E w \in log : w.provider = p
          /\ q # p /\ q \in DictKeySet(stt_services)

\* C2: no builder raises, and each registry has keys of its own kind's catalog
\* only, each at most once
C2_RegistryWithinCatalog ==
    /\ uncaught = None
    /\ DictKeySet(stt_services) \subseteq STTProviders
    /\ DictKeySet(llm_services) \subseteq LLMProviders
    /\ NoDuplicateKey(stt_services)
    /\ NoDuplicateKey(llm_services)

\* both kinds built: one registry with an entry, the other empty after a
\* constructor failure
C2_Witness ==
    /\ SttBuilt /\ LlmBuilt
    /\ Len(stt_services) > 0
    /\ llm_services = EmptyDict
    /\ ctor_raises \cap LLMProviders # {}

\* C3: a provider whose API key is None or empty is in no built registry
C3_NoCredentialNoEntry ==
    \A p \in Providers :
        settings[RequiredCredential(p)] \in {None, EmptyKey} =>
            /\ p \notin DictKeySet(stt_services)
            /\ p \notin DictKeySet(llm_services)

\* both kinds built from settings with an empty-string key next to a usable one
C3_Witness ==
    /\ SttBuilt /\ LlmBuilt
    /\ \E p \in Providers : settings[RequiredCredential(p)] = EmptyKey
    /\ \E q \in Providers : q \in DictKeySet(stt_services) \cup DictKeySet(llm_services)

\* empty credentials: both registries are built and empty
C3_WitnessEmpty ==
    /\ SttBuilt /\ LlmBuilt
    /\ \A p \in Providers : ~HasCredential(p)
    /\ stt_services = EmptyDict /\ llm_services = EmptyDict

\* C4: once set_available_providers has been called, no later step changes the
\* process-wide registry
C4_WriteOnce == [][initialized => Registry' = Registry]_vars

\* C5: a response served before set_available_providers was ever called has
\* two empty lists
C5_FailClosed ==
    (n_requests > 0 /\ ~served_from.initialized) =>
        response = [stt |-> <<>>, llm |-> <<>>]

\* the endpoint was called before the setter, with registries already built
C5_Witness ==
    /\ n_requests > 0 /\ ~served_from.initialized
    /\ SttBuilt /\ Len(stt_services) > 0

MissingCredentialMessages ==
    {"AssemblyAI API key not configured", "Cartesia API key not configured",
     "Deepgram API key not configured", "OpenAI API key not configured",
     "Google API key not configured", "Anthropic API key not configured",
     "Cerebras API key not configured", "Groq API key not configured"}

\* C7: a factory call for a provider whose API key is None or empty raises the
\* "API key not configured" ValueError before any service class is touched, and
\* a factory call returns an instance only if the provider's own key is non-empty
C7_MissingCredential ==
    \A i \in 1..Len(last_call) :
        LET c == last_call[i] IN
        /\ ~HasCredential(c.provider) =>
              /\ ~c.result.ok
              /\ c.result.exc = "ValueError"
              /\ c.result.msg \in MissingCredentialMessages
              /\ ~c.result.ctor
        /\ c.result.ok => HasCredential(c.provider)

\* the factory was called for a provider whose key is the empty string while
\* another provider has a usable key
C7_Witness ==
    /\ Len(last_call) = 1
    /\ settings[RequiredCredential(last_call[1].provider)] = EmptyKey
    /\ ~last_call[1].result.ok
    /\ \E q \in Providers : HasCredential(q)

\* the factory returned an instance
C7_WitnessInstance ==
    /\ Len(last_call) = 1
    /\ last_call[1].result.ok

\* only the Cartesia and Cerebras keys are usable and both constructors succeed
OnlyCartesiaAndCerebras ==
    /\ \A p \in Providers : HasCredential(p) <=> p \in {CARTESIA, CEREBRAS}
    /\ ctor_raises = {}

\* the last response was rendered from the built registries after they were set
ServedBuiltRegistry ==
    /\ n_requests > 0 /\ served_from.initialized
    /\ SttBuilt /\ LlmBuilt
    /\ served_from.stt = stt_services /\ served_from.llm = llm_services

\* C8: with only a Cartesia and a Cerebras key, the response after build and
\* publication is exactly the Cartesia and the Cerebras entry; every entry of
\* every response carries its provider's label and is_local = FALSE
C8_CartesiaCerebras ==
    /\ (OnlyCartesiaAndCerebras /\ ServedBuiltRegistry) =>
          /\ PublicFields(response.stt) =
                <<[value |-> "cartesia", label |-> "Cartesia", is_local |-> FALSE]>>
          /\ PublicFields(response.llm) =
                <<[value |-> "cerebras", label |-> "Cerebras", is_local |-> FALSE]>>
    /\ \A i \in 1..Len(response.stt) :
          /\ response.stt[i].label = STT_PROVIDER_LABELS[response.stt[i].value]
          /\ ~response.stt[i].is_local
    /\ \A i \in 1..Len(response.llm) :
          /\ response.llm[i].label = LLM_PROVIDER_LABELS[response.llm[i].value]
          /\ ~response.llm[i].is_local

C8_Witness ==
    /\ OnlyCartesiaAndCerebras /\ ServedBuiltRegistry
    /\ Len(response.stt) = 1 /\ Len(response.llm) = 1

\* C9: a call of the endpoint leaves the registry as it is, and a call that
\* finds the registry the previous response was rendered from returns the same
\* value, label and is_local fields in the same order
C9_Idempotent ==
    [][n_requests' = n_requests + 1 =>
          /\ Registry' = Registry
          /\ (n_requests > 0 /\ Registry = <<served_from.stt, served_from.llm>>) =>
                /\ PublicFields(response'.stt) = PublicFields(response.stt)
                /\ PublicFields(response'.llm) = PublicFields(response.llm)]_vars

\* two calls served, the last from an unchanged registry with entries of both kinds
C9_Witness ==
    /\ n_requests >= 2
    /\ Registry = <<served_from.stt, served_from.llm>>
    /\ Len(response.stt) > 0 /\ Len(response.llm) > 0

\* C10: each response list has one entry per key of the registry it was rendered
\* from, and its values are the catalog order of the kind restricted to those keys
C10_CatalogOrder ==
    n_requests > 0 =>
        /\ Len(response.stt) = Cardinality(DictKeySet(served_from.stt))
        /\ Len(response.llm) = Cardinality(DictKeySet(served_from.llm))
        /\ Values(response.stt) = CatalogOrder(STTProvider, DictKeySet(served_from.stt))
        /\ Values(response.llm) = CatalogOrder(LLMProvider, DictKeySet(served_from.llm))

\* a response with two LLM entries whose catalog order is not the sorted order
C10_Witness ==
    /\ ServedBuiltRegistry
    /\ Values(response.llm) = <<OPENAI, CEREBRAS>>
====
